---- MODULE Spec2Model ----
(***************************************************************************)
(* Order lifecycle of the delivery backend: the order controller           *)
(* (createOrder, updateOrder, assignDriver, updateOrderStatus,             *)
(* cancelOrder), behind the middleware chains of orderRoutes.js            *)
(* (authenticateToken, requireRole, validateUUID, body validators), over   *)
(* the Order and User tables.                                              *)
(*                                                                         *)
(* A request is one atomic step: the middlewares of its route run in the   *)
(* order the route lists them, then the handler; the first one that        *)
(* answers ends the request.  The answer is recorded in `last`.            *)
(*                                                                         *)
(* Spec follows the write requests on one order and records the answer;    *)
(* SpecBy follows the same requests and records whose request it was;      *)
(* SpecRead asks the read routes (getOrderById, getAllOrders,              *)
(* getAvailableOrders) on tables of several orders.  In these three a      *)
(* request is one atomic step.  SpecRace runs two requests at a time, each *)
(* in two steps, the handler's findByPk and its order.update; SpecUsers    *)
(* follows the requests of userRoutes.js that write the Users table.       *)
(***************************************************************************)
EXTENDS Integers, FiniteSets, Sequences, TLC

\* ---------------------------------------------------------------- bounds

\* The number of distinct prices requests carry.
MaxPrice == 2

\* The number of rows of the Orders table the read requests are asked on.
MaxRows == 2

\* ------------------------------------------------------------ value sets

Absent == "absent"      \* a body field that is not in the request (undefined)
Null == "null"          \* SQL NULL / JSON null
Bogus == "bogus"        \* a string that is none of the enum's values
NoRow == [found |-> FALSE]   \* findByPk / findOne found nothing (null)

\* The rows of the Users table.  U0 is a well-formed id of no user.
UserIds == {"A", "C1", "C2", "D1", "D2", "D3", "U0"}

\* The primary keys the Orders table can hold: Order.create hands them out
\* in this order.  One order is followed: every handler reads and writes the
\* one row findByPk(id) returns, and createOrder reads none.
OrderKeys == <<"o1">>
OrderIds == {OrderKeys[i] : i \in 1..Len(OrderKeys)}

\* Prices in the range the validators accept, and one outside it.  The price
\* stands for all eight content fields of an order (addresses, coordinates,
\* description, price), which every handler treats alike.
PriceKeys == <<"10.00", "25.00", "40.00", "55.00">>
Prices == {PriceKeys[i] : i \in 1..MaxPrice}
BadPrice == "0.00"

\* A well-formed id of no order, and a string that is no UUID.
NoOrder == "no-such-order"
BadId == "not-a-uuid"

IdParams == OrderIds \cup {NoOrder, BadId}

Roles == {"admin", "driver", "customer"}
UserStatuses == {"active", "inactive", "suspended", "pending"}
DeliveryStatuses == {"pending", "assigned", "picked", "in_transit", "delivered", "cancelled"}
PaymentStatuses == {"pending", "paid", "failed"}

VARIABLES
    users,          \* Users table: id -> [role, status] or NoRow
    orders,         \* Orders table: id -> order row or NoRow
    assignedEver,   \* history: an admin has assigned a driver to the order
    last,           \* the last request: [op, kind, oid], oid the row it wrote
    inflight        \* per connection: the request a handler is in the middle of

vars == <<users, orders, assignedEver, last, inflight>>

\* The connections requests arrive on.  Between two awaits a handler runs
\* alone; at an await another connection's handler can run.
Procs == {"p1", "p2"}

\* No request is in flight on the connection.
Idle == [phase |-> "idle", req |-> [op |-> "none"], instance |-> NoRow, kind |-> "none"]

\* ------------------------------------------------------------- requests

\* A body with none of the fields the handlers read.
NoFields ==
    [price |-> Absent, delivery_status |-> Absent, payment_status |-> Absent,
     driver_id |-> Absent, customer_id |-> Absent]

\* The fields of a body that the request validators of POST /orders and
\* PUT /orders/:id do not look at, and the values requests give them.
ExtraFields ==
    {[NoFields EXCEPT !.delivery_status = v] : v \in DeliveryStatuses \cup {Bogus}}
    \cup {[NoFields EXCEPT !.payment_status = v] : v \in PaymentStatuses \cup {Bogus}}
    \cup {[NoFields EXCEPT !.driver_id = v] : v \in {Null, "C1"}}
    \cup {[NoFields EXCEPT !.customer_id = v] : v \in {"C2"}}

\* Bodies of PUT /orders/:id: a price alone (or nothing), or one of the
\* other fields, alone or with a price.
UpdateBodies ==
    {[NoFields EXCEPT !.price = p] : p \in {Absent, BadPrice} \cup Prices}
    \cup {[b EXCEPT !.price = p] : b \in ExtraFields, p \in {Absent, PriceKeys[MaxPrice]}}

\* Bodies of POST /orders: a price, valid or not, alone or with a field
\* createOrder does not read.
CreateBodies ==
    {[b EXCEPT !.price = p] :
        b \in {NoFields,
               [NoFields EXCEPT !.delivery_status = "delivered"],
               [NoFields EXCEPT !.payment_status = "paid"],
               [NoFields EXCEPT !.driver_id = "D1"],
               [NoFields EXCEPT !.customer_id = "C2"]},
        p \in {PriceKeys[1], BadPrice}}

\* Bodies of PUT /orders/:id/status: each status absent or one of its
\* values, or one malformed status.
StatusBodies ==
    {[delivery_status |-> d, payment_status |-> p] :
        d \in {Absent} \cup DeliveryStatuses, p \in {Absent} \cup PaymentStatuses}
    \cup {[delivery_status |-> Bogus, payment_status |-> Absent],
          [delivery_status |-> Absent, payment_status |-> Bogus]}

\* Bodies of PUT /orders/:id/assign: the driver_id.
AssignTargets == {"D1", "D2", "D3", "C1", "U0", BadId}

\* The requests of the model: every caller with a token of an active user,
\* on every order id of the model, with every body; and every caller on
\* every :id with one well-formed body (a caller authenticateToken turns
\* away is answered before the body is read, an :id that names no row before
\* the handler reads it).
Callers == UserIds \ {"D3", "U0"}

CreateRequests ==
    {[caller |-> c, body |-> b] : c \in Callers, b \in CreateBodies}
    \cup {[caller |-> c, body |-> [NoFields EXCEPT !.price = PriceKeys[1]]] : c \in UserIds}
UpdateRequests ==
    {[caller |-> c, id |-> i, body |-> b] : c \in Callers, i \in OrderIds, b \in UpdateBodies}
    \cup {[caller |-> c, id |-> i, body |-> NoFields] : c \in UserIds, i \in IdParams}
StatusRequests ==
    {[caller |-> c, id |-> i, body |-> b] : c \in Callers, i \in OrderIds, b \in StatusBodies}
    \cup {[caller |-> c, id |-> i,
           body |-> [delivery_status |-> "picked", payment_status |-> Absent]] :
              c \in UserIds, i \in IdParams}
AssignRequests ==
    {[caller |-> c, id |-> i, driver_id |-> d] :
        c \in Callers, i \in OrderIds, d \in AssignTargets}
    \cup {[caller |-> c, id |-> i, driver_id |-> "D1"] : c \in UserIds, i \in IdParams}
CancelRequests == {[caller |-> c, id |-> i] : c \in UserIds, i \in IdParams}

\* ------------------------------------------------------------ responses

Kinds == {"OK", "Created", "ValidationError", "InvalidState", "Unauthenticated",
          "AuthorizationDenied", "NotFound", "ServerError"}

HttpStatus(kind) ==
    CASE kind = "OK" -> 200
      [] kind = "Created" -> 201
      [] kind \in {"ValidationError", "InvalidState"} -> 400
      [] kind = "Unauthenticated" -> 401
      [] kind = "AuthorizationDenied" -> 403
      [] kind = "NotFound" -> 404
      [] kind = "ServerError" -> 500

\* What a request does: its answer and the Orders table it leaves.
Reply(kind, store) == [kind |-> kind, orders |-> store]

\* ---------------------------------------------------------------- models

\* Order.findByPk(id)
FindOrder(id) == IF id \in OrderIds THEN orders[id] ELSE NoRow

\* User.findByPk(id)
FindUser(id) == IF id \in UserIds THEN users[id] ELSE NoRow

\* OrderRowOk, had payment_status and delivery_status been plain strings
\* without an isIn validator.
OrderRowOkAnyStatus(row) ==
    /\ row.customer_id # Null /\ FindUser(row.customer_id) # NoRow
    /\ row.driver_id = Null \/ FindUser(row.driver_id) # NoRow
    /\ row.price \in Prices

\* The Order model's validators and the table's constraints, as save() and
\* the database apply them: a row that fails is not written and the handler's
\* catch answers 500.
OrderRowOk(row) ==
    /\ row.customer_id # Null /\ FindUser(row.customer_id) # NoRow
    /\ row.driver_id = Null \/ FindUser(row.driver_id) # NoRow
    /\ row.price \in Prices
    /\ row.payment_status \in PaymentStatuses
    /\ row.delivery_status \in DeliveryStatuses

Fields == {"customer_id", "driver_id", "price", "payment_status", "delivery_status"}

\* instance.set(values): the attributes the values carry are assigned.
SetFields(row, values) ==
    [f \in Fields |-> IF f \in DOMAIN values /\ values[f] # Absent THEN values[f] ELSE row[f]]

\* order.update(values) on the row with primary key id.
OrderUpdate(id, values) ==
    LET row == SetFields(orders[id], values) IN
    IF OrderRowOk(row) THEN Reply("OK", [orders EXCEPT ![id] = row])
    ELSE Reply("ServerError", orders)

\* The rows the table holds, and the id Order.create gives the next one.
OrderCount == Cardinality({id \in OrderIds : orders[id] # NoRow})
TableFull == OrderCount = Len(OrderKeys)
NextOrderId == OrderKeys[OrderCount + 1]

\* Order.create(orderData): payment_status and delivery_status take their
\* defaultValue, driver_id is left NULL.
OrderCreate(orderData) ==
    LET row == [customer_id |-> orderData.customer_id, driver_id |-> Null,
                price |-> orderData.price, payment_status |-> "pending",
                delivery_status |-> "pending"] IN
    IF TableFull THEN Reply("Created", orders)
    ELSE IF OrderRowOk(row) THEN Reply("Created", [orders EXCEPT ![NextOrderId] = row])
    ELSE Reply("ServerError", orders)

\* ----------------------------------------------------------- middlewares

\* authenticateToken, had it looked the user up without looking at the
\* status.
authenticateTokenAnyStatus(caller) == FindUser(caller) # NoRow

\* authenticateToken: the token names `caller`; the request goes on iff the
\* user exists and is active.
authenticateToken(caller) ==
    /\ FindUser(caller) # NoRow
    /\ users[caller].status = "active"

requireRole(roles, caller) == users[caller].role \in roles
requireAdmin(caller) == requireRole({"admin"}, caller)
requireAdminOrDriver(caller) == requireRole({"admin", "driver"}, caller)

validateUUID(id) == id # BadId
validateOrderCreation(body) == body.price \in Prices
validateOrderUpdate(body) == body.price = Absent \/ body.price \in Prices
validateDriverAssignment(driver_id) == driver_id # BadId
validateStatusUpdate(body) ==
    /\ body.delivery_status = Absent \/ body.delivery_status \in DeliveryStatuses
    /\ body.payment_status = Absent \/ body.payment_status \in PaymentStatuses

\* -------------------------------------------------------------- handlers
\* Each handler is given the authenticated caller (req.user), the :id
\* parameter and the body, and yields its Reply.

\* createOrder, had it taken customer_id from the body when the body has one.
createOrderFromBody(caller, body) ==
    IF users[caller].role # "customer" /\ users[caller].role # "admin"
    THEN Reply("AuthorizationDenied", orders)
    ELSE OrderCreate([customer_id |-> IF body.customer_id # Absent THEN body.customer_id
                                      ELSE caller,
                      price |-> body.price])

createOrder(caller, body) ==
    IF users[caller].role # "customer" /\ users[caller].role # "admin"
    THEN Reply("AuthorizationDenied", orders)
    ELSE OrderCreate([customer_id |-> caller, price |-> body.price])

\* StripFor, had the customer branch left driver_id in updateData.
StripForKeepsDriver(role, body) ==
    CASE role = "customer" ->
            [body EXCEPT !.delivery_status = Absent, !.payment_status = Absent]
      [] role = "driver" ->
            [f \in DOMAIN body |-> IF f = "delivery_status" THEN body[f] ELSE Absent]
      [] OTHER -> body

\* StripFor, had the customer branch left payment_status in updateData.
StripForKeepsPayment(role, body) ==
    CASE role = "customer" ->
            [body EXCEPT !.delivery_status = Absent, !.driver_id = Absent]
      [] role = "driver" ->
            [f \in DOMAIN body |-> IF f = "delivery_status" THEN body[f] ELSE Absent]
      [] OTHER -> body

\* StripFor, had the customer branch left delivery_status in updateData.
StripForKeepsStatus(role, body) ==
    CASE role = "customer" ->
            [body EXCEPT !.payment_status = Absent, !.driver_id = Absent]
      [] role = "driver" ->
            [f \in DOMAIN body |-> IF f = "delivery_status" THEN body[f] ELSE Absent]
      [] OTHER -> body

\* StripFor, had the driver branch kept the price as well.
StripForDriverKeepsPrice(role, body) ==
    CASE role = "customer" ->
            [body EXCEPT !.delivery_status = Absent, !.payment_status = Absent,
                         !.driver_id = Absent]
      [] role = "driver" ->
            [f \in DOMAIN body |->
                IF f \in {"delivery_status", "price"} THEN body[f] ELSE Absent]
      [] OTHER -> body

\* What is left of updateData when updateOrder has deleted the fields the
\* caller's role may not write.
StripFor(role, body) ==
    CASE role = "customer" ->
            [body EXCEPT !.delivery_status = Absent, !.payment_status = Absent,
                         !.driver_id = Absent]
      [] role = "driver" ->
            [f \in DOMAIN body |-> IF f = "delivery_status" THEN body[f] ELSE Absent]
      [] OTHER -> body

\* updateOrder, had the customer branch not looked at delivery_status.
updateOrderAnyState(caller, id, body) ==
    LET order == FindOrder(id)
        role == users[caller].role IN
    IF order = NoRow THEN Reply("NotFound", orders)
    ELSE IF role = "customer" /\ order.customer_id # caller
         THEN Reply("AuthorizationDenied", orders)
    ELSE IF role = "driver" /\ order.driver_id # caller
         THEN Reply("AuthorizationDenied", orders)
    ELSE OrderUpdate(id, StripFor(role, body))

\* updateOrder, had the customer branch turned away a body that carries a
\* field customers may not write.
updateOrderRejectsRestricted(caller, id, body) ==
    LET order == FindOrder(id)
        role == users[caller].role IN
    IF order = NoRow THEN Reply("NotFound", orders)
    ELSE IF role = "customer" /\ order.customer_id # caller
         THEN Reply("AuthorizationDenied", orders)
    ELSE IF role = "customer" /\ order.delivery_status # "pending"
         THEN Reply("InvalidState", orders)
    ELSE IF role = "customer" /\ StripFor(role, body) # body
         THEN Reply("ValidationError", orders)
    ELSE IF role = "driver" /\ order.driver_id # caller
         THEN Reply("AuthorizationDenied", orders)
    ELSE OrderUpdate(id, StripFor(role, body))

\* updateOrder, had the customer's ownership check come before the check
\* that the order exists.
updateOrderHidesMissing(caller, id, body) ==
    LET order == FindOrder(id)
        role == users[caller].role IN
    IF role = "customer" /\ (order = NoRow \/ order.customer_id # caller)
    THEN Reply("AuthorizationDenied", orders)
    ELSE IF order = NoRow THEN Reply("NotFound", orders)
    ELSE IF role = "customer" /\ order.delivery_status # "pending"
         THEN Reply("InvalidState", orders)
    ELSE IF role = "driver" /\ order.driver_id # caller
         THEN Reply("AuthorizationDenied", orders)
    ELSE OrderUpdate(id, StripFor(role, body))

updateOrder(caller, id, body) ==
    LET order == FindOrder(id)
        role == users[caller].role IN
    IF order = NoRow THEN Reply("NotFound", orders)
    ELSE IF role = "customer" /\ order.customer_id # caller
         THEN Reply("AuthorizationDenied", orders)
    ELSE IF role = "customer" /\ order.delivery_status # "pending"
         THEN Reply("InvalidState", orders)
    ELSE IF role = "driver" /\ order.driver_id # caller
         THEN Reply("AuthorizationDenied", orders)
    ELSE OrderUpdate(id, StripFor(role, body))

\* assignDriver, had it looked the driver up by id and role only.
assignDriverAnyStatus(caller, id, driver_id) ==
    LET order == FindOrder(id)
        driver == FindUser(driver_id) IN
    IF order = NoRow THEN Reply("NotFound", orders)
    ELSE IF order.delivery_status # "pending" THEN Reply("InvalidState", orders)
    ELSE IF driver = NoRow \/ driver.role # "driver" THEN Reply("NotFound", orders)
    ELSE OrderUpdate(id, [driver_id |-> driver_id, delivery_status |-> "assigned"])

\* assignDriver, had it written driver_id only.
assignDriverKeepsStatus(caller, id, driver_id) ==
    LET order == FindOrder(id)
        driver == FindUser(driver_id) IN
    IF order = NoRow THEN Reply("NotFound", orders)
    ELSE IF order.delivery_status # "pending" THEN Reply("InvalidState", orders)
    ELSE IF driver = NoRow \/ driver.role # "driver" \/ driver.status # "active"
         THEN Reply("NotFound", orders)
    ELSE OrderUpdate(id, [driver_id |-> driver_id])

\* assignDriver, had it not looked at the order's delivery_status.
assignDriverAnyOrder(caller, id, driver_id) ==
    LET order == FindOrder(id)
        driver == FindUser(driver_id) IN
    IF order = NoRow THEN Reply("NotFound", orders)
    ELSE IF driver = NoRow \/ driver.role # "driver" \/ driver.status # "active"
         THEN Reply("NotFound", orders)
    ELSE OrderUpdate(id, [driver_id |-> driver_id, delivery_status |-> "assigned"])

assignDriver(caller, id, driver_id) ==
    LET order == FindOrder(id)
        driver == FindUser(driver_id) IN
    IF order = NoRow THEN Reply("NotFound", orders)
    ELSE IF order.delivery_status # "pending" THEN Reply("InvalidState", orders)
    ELSE IF driver = NoRow \/ driver.role # "driver" \/ driver.status # "active"
         THEN Reply("NotFound", orders)
    ELSE OrderUpdate(id, [driver_id |-> driver_id, delivery_status |-> "assigned"])

\* updateOrderStatus, had the driver's ownership check passed an order
\* without a driver.
updateOrderStatusUnassigned(caller, id, body) ==
    LET order == FindOrder(id)
        role == users[caller].role
        updateData ==
            [delivery_status |-> body.delivery_status,
             payment_status |-> IF role = "admin" THEN body.payment_status ELSE Absent] IN
    IF order = NoRow THEN Reply("NotFound", orders)
    ELSE IF role = "driver" /\ order.driver_id # Null /\ order.driver_id # caller
         THEN Reply("AuthorizationDenied", orders)
    ELSE IF role = "driver" /\ body.payment_status # Absent
         THEN Reply("AuthorizationDenied", orders)
    ELSE IF role = "customer" THEN Reply("AuthorizationDenied", orders)
    ELSE OrderUpdate(id, updateData)

\* updateOrderStatus, had it refused to write to a delivered or cancelled
\* order.
updateOrderStatusGuarded(caller, id, body) ==
    LET order == FindOrder(id)
        role == users[caller].role
        updateData ==
            [delivery_status |-> body.delivery_status,
             payment_status |-> IF role = "admin" THEN body.payment_status ELSE Absent] IN
    IF order = NoRow THEN Reply("NotFound", orders)
    ELSE IF role = "driver" /\ order.driver_id # caller
         THEN Reply("AuthorizationDenied", orders)
    ELSE IF role = "driver" /\ body.payment_status # Absent
         THEN Reply("AuthorizationDenied", orders)
    ELSE IF role = "customer" THEN Reply("AuthorizationDenied", orders)
    ELSE IF order.delivery_status \in {"delivered", "cancelled"}
         THEN Reply("InvalidState", orders)
    ELSE OrderUpdate(id, updateData)

\* updateOrderStatus, had it written the delivery_status before it turned
\* away a driver's payment_status.
updateOrderStatusWritesFirst(caller, id, body) ==
    LET order == FindOrder(id)
        role == users[caller].role
        updateData ==
            [delivery_status |-> body.delivery_status,
             payment_status |-> IF role = "admin" THEN body.payment_status ELSE Absent] IN
    IF order = NoRow THEN Reply("NotFound", orders)
    ELSE IF role = "driver" /\ order.driver_id # caller
         THEN Reply("AuthorizationDenied", orders)
    ELSE IF role = "driver" /\ body.payment_status # Absent
         THEN Reply("AuthorizationDenied",
                    OrderUpdate(id, [delivery_status |-> body.delivery_status]).orders)
    ELSE IF role = "customer" THEN Reply("AuthorizationDenied", orders)
    ELSE OrderUpdate(id, updateData)

updateOrderStatus(caller, id, body) ==
    LET order == FindOrder(id)
        role == users[caller].role
        updateData ==
            [delivery_status |-> body.delivery_status,
             payment_status |-> IF role = "admin" THEN body.payment_status ELSE Absent] IN
    IF order = NoRow THEN Reply("NotFound", orders)
    ELSE IF role = "driver" /\ order.driver_id # caller
         THEN Reply("AuthorizationDenied", orders)
    ELSE IF role = "driver" /\ body.payment_status # Absent
         THEN Reply("AuthorizationDenied", orders)
    ELSE IF role = "customer" THEN Reply("AuthorizationDenied", orders)
    ELSE OrderUpdate(id, updateData)

\* cancelOrder, had it refused delivered orders only.
cancelOrderDeliveredOnly(caller, id) ==
    LET order == FindOrder(id) IN
    IF order = NoRow THEN Reply("NotFound", orders)
    ELSE IF users[caller].role = "customer" /\ order.customer_id # caller
         THEN Reply("AuthorizationDenied", orders)
    ELSE IF order.delivery_status \in {"delivered"}
         THEN Reply("InvalidState", orders)
    ELSE OrderUpdate(id, [delivery_status |-> "cancelled"])

\* cancelOrder, had it taken the driver off the order as well.
cancelOrderUnassigns(caller, id) ==
    LET order == FindOrder(id) IN
    IF order = NoRow THEN Reply("NotFound", orders)
    ELSE IF users[caller].role = "customer" /\ order.customer_id # caller
         THEN Reply("AuthorizationDenied", orders)
    ELSE IF order.delivery_status \in {"delivered", "cancelled"}
         THEN Reply("InvalidState", orders)
    ELSE OrderUpdate(id, [delivery_status |-> "cancelled", driver_id |-> Null])

cancelOrder(caller, id) ==
    LET order == FindOrder(id) IN
    IF order = NoRow THEN Reply("NotFound", orders)
    ELSE IF users[caller].role = "customer" /\ order.customer_id # caller
         THEN Reply("AuthorizationDenied", orders)
    ELSE IF order.delivery_status \in {"delivered", "cancelled"}
         THEN Reply("InvalidState", orders)
    ELSE OrderUpdate(id, [delivery_status |-> "cancelled"])

\* ---------------------------------------------------------------- routes
\* The middleware chain of each route of orderRoutes.js, then its handler.

PostOrders(caller, body) ==
    IF ~authenticateToken(caller) THEN Reply("Unauthenticated", orders)
    ELSE IF ~validateOrderCreation(body) THEN Reply("ValidationError", orders)
    ELSE createOrder(caller, body)

PutOrder(caller, id, body) ==
    IF ~authenticateToken(caller) THEN Reply("Unauthenticated", orders)
    ELSE IF ~validateUUID(id) THEN Reply("ValidationError", orders)
    ELSE IF ~validateOrderUpdate(body) THEN Reply("ValidationError", orders)
    ELSE updateOrder(caller, id, body)

DeleteOrder(caller, id) ==
    IF ~authenticateToken(caller) THEN Reply("Unauthenticated", orders)
    ELSE IF ~validateUUID(id) THEN Reply("ValidationError", orders)
    ELSE cancelOrder(caller, id)

PutOrderStatus(caller, id, body) ==
    IF ~authenticateToken(caller) THEN Reply("Unauthenticated", orders)
    ELSE IF ~requireAdminOrDriver(caller) THEN Reply("AuthorizationDenied", orders)
    ELSE IF ~validateUUID(id) THEN Reply("ValidationError", orders)
    ELSE IF ~validateStatusUpdate(body) THEN Reply("ValidationError", orders)
    ELSE updateOrderStatus(caller, id, body)

PutOrderAssign(caller, id, driver_id) ==
    IF ~authenticateToken(caller) THEN Reply("Unauthenticated", orders)
    ELSE IF ~requireAdmin(caller) THEN Reply("AuthorizationDenied", orders)
    ELSE IF ~validateUUID(id) THEN Reply("ValidationError", orders)
    ELSE IF ~validateDriverAssignment(driver_id) THEN Reply("ValidationError", orders)
    ELSE assignDriver(caller, id, driver_id)

\* --------------------------------------------------------------- actions

\* The request is answered: the table is as the reply leaves it and `last`
\* holds the answer, with the id of the row a successful request wrote.
\* `assigns` says that the request was an admin's assignment of a driver: the
\* order is then marked assigned-ever.
Answer(op, id, reply, assigns) ==
    /\ orders' = reply.orders
    /\ last' = [op |-> op, kind |-> reply.kind,
                oid |-> IF reply.kind \in {"OK", "Created"} THEN id ELSE NoOrder]
    /\ assignedEver' = [o \in OrderIds |-> assignedEver[o] \/ (assigns /\ o = id)]
    /\ UNCHANGED <<users, inflight>>

\* Each action is one request: the route's reply is computed once, then
\* answered.
Create(caller, body) ==
    \E reply \in {PostOrders(caller, body)} :
        /\ reply.kind = "Created" => ~TableFull
        /\ Answer("create", IF TableFull THEN NoOrder ELSE NextOrderId, reply, FALSE)

Update(caller, id, body) ==
    \E reply \in {PutOrder(caller, id, body)} :
        Answer("update", id, reply,
               /\ reply.kind = "OK"
               /\ users[caller].role = "admin"
               /\ body.driver_id \notin {Absent, Null})

Assign(caller, id, driver_id) ==
    \E reply \in {PutOrderAssign(caller, id, driver_id)} :
        Answer("assign", id, reply, reply.kind = "OK")

Status(caller, id, body) ==
    \E reply \in {PutOrderStatus(caller, id, body)} : Answer("status", id, reply, FALSE)

Cancel(caller, id) ==
    \E reply \in {DeleteOrder(caller, id)} : Answer("cancel", id, reply, FALSE)

Init ==
    /\ users = [u \in UserIds |->
                  CASE u = "A" -> [role |-> "admin", status |-> "active"]
                    [] u \in {"C1", "C2"} -> [role |-> "customer", status |-> "active"]
                    [] u \in {"D1", "D2"} -> [role |-> "driver", status |-> "active"]
                    [] u = "D3" -> [role |-> "driver", status |-> "suspended"]
                    [] OTHER -> NoRow]
    /\ orders = [o \in OrderIds |-> NoRow]
    /\ assignedEver = [o \in OrderIds |-> FALSE]
    /\ last = [op |-> "none", kind |-> "OK", oid |-> NoOrder]
    /\ inflight = [p \in Procs |-> Idle]

Next ==
    \/ \E r \in CreateRequests : Create(r.caller, r.body)
    \/ \E r \in UpdateRequests : Update(r.caller, r.id, r.body)
    \/ \E r \in AssignRequests : Assign(r.caller, r.id, r.driver_id)
    \/ \E r \in StatusRequests : Status(r.caller, r.id, r.body)
    \/ \E r \in CancelRequests : Cancel(r.caller, r.id)

Spec == Init /\ [][Next]_vars

\* The same requests, with another history: whose request the last one was
\* (the role authenticateToken put in req.user, or nobody's when it turned
\* the caller away) and whether it succeeded.
AnswerBy(op, caller, id, reply, assigns) ==
    /\ orders' = reply.orders
    /\ last' = [op |-> op, ok |-> reply.kind \in {"OK", "Created"},
                by |-> IF authenticateToken(caller) THEN users[caller].role ELSE "nobody"]
    /\ assignedEver' = [o \in OrderIds |-> assignedEver[o] \/ (assigns /\ o = id)]
    /\ UNCHANGED <<users, inflight>>

CreateBy(caller, body) ==
    \E reply \in {PostOrders(caller, body)} :
        /\ reply.kind = "Created" => ~TableFull
        /\ AnswerBy("create", caller, IF TableFull THEN NoOrder ELSE NextOrderId, reply, FALSE)

UpdateBy(caller, id, body) ==
    \E reply \in {PutOrder(caller, id, body)} :
        AnswerBy("update", caller, id, reply,
                 /\ reply.kind = "OK"
                 /\ users[caller].role = "admin"
                 /\ body.driver_id \notin {Absent, Null})

AssignBy(caller, id, driver_id) ==
    \E reply \in {PutOrderAssign(caller, id, driver_id)} :
        AnswerBy("assign", caller, id, reply, reply.kind = "OK")

StatusBy(caller, id, body) ==
    \E reply \in {PutOrderStatus(caller, id, body)} :
        AnswerBy("status", caller, id, reply, FALSE)

CancelBy(caller, id) ==
    \E reply \in {DeleteOrder(caller, id)} : AnswerBy("cancel", caller, id, reply, FALSE)

InitBy ==
    /\ users = [u \in UserIds |->
                  CASE u = "A" -> [role |-> "admin", status |-> "active"]
                    [] u \in {"C1", "C2"} -> [role |-> "customer", status |-> "active"]
                    [] u \in {"D1", "D2"} -> [role |-> "driver", status |-> "active"]
                    [] u = "D3" -> [role |-> "driver", status |-> "suspended"]
                    [] OTHER -> NoRow]
    /\ orders = [o \in OrderIds |-> NoRow]
    /\ assignedEver = [o \in OrderIds |-> FALSE]
    /\ last = [op |-> "none", ok |-> TRUE, by |-> "nobody"]
    /\ inflight = [p \in Procs |-> Idle]

NextBy ==
    \/ \E r \in CreateRequests : CreateBy(r.caller, r.body)
    \/ \E r \in UpdateRequests : UpdateBy(r.caller, r.id, r.body)
    \/ \E r \in AssignRequests : AssignBy(r.caller, r.id, r.driver_id)
    \/ \E r \in StatusRequests : StatusBy(r.caller, r.id, r.body)
    \/ \E r \in CancelRequests : CancelBy(r.caller, r.id)

SpecBy == InitBy /\ [][NextBy]_vars

\* ----------------------------------------------------------------- reads
\* The read routes are asked on a table of MaxRows rows, which they leave
\* as it is.  A row carries, besides the fields above, its creation time
\* and its pickup address, which stands for the three texts that search
\* looks into.

RowKeys == <<"r1", "r2", "r3", "r4">>
RowIds == {RowKeys[i] : i \in 1..MaxRows}

\* created_at: an earlier and a later time; two rows can have been created
\* at the same one.
Times == {1, 2}

\* The rows the table is drawn from: orders of either customer that are
\* pending without a driver, pending with a driver, cancelled without a
\* driver, or assigned.
ListedRows ==
    {[customer_id |-> "C1", driver_id |-> Null, price |-> PriceKeys[1],
      payment_status |-> "pending", delivery_status |-> "pending",
      pickup_address |-> "elm", created_at |-> t] : t \in Times}
    \cup {[customer_id |-> "C2", driver_id |-> Null, price |-> PriceKeys[1],
            payment_status |-> "pending", delivery_status |-> "pending",
            pickup_address |-> "oak", created_at |-> t] : t \in Times}
    \cup {[customer_id |-> "C1", driver_id |-> "D1", price |-> PriceKeys[1],
            payment_status |-> "pending", delivery_status |-> "pending",
            pickup_address |-> "elm", created_at |-> t] : t \in Times}
    \cup {[customer_id |-> "C2", driver_id |-> Null, price |-> PriceKeys[1],
            payment_status |-> "failed", delivery_status |-> "cancelled",
            pickup_address |-> "oak", created_at |-> t] : t \in Times}
    \cup {[customer_id |-> "C2", driver_id |-> "D1", price |-> PriceKeys[1],
            payment_status |-> "paid", delivery_status |-> "assigned",
            pickup_address |-> "oak", created_at |-> t] : t \in Times}

\* req.query of GET /orders: the parameters are strings.
NoQuery ==
    [page |-> Absent, limit |-> Absent, delivery_status |-> Absent,
     payment_status |-> Absent, customer_id |-> Absent, driver_id |-> Absent,
     search |-> Absent]

Queries ==
    {NoQuery}
    \cup {[NoQuery EXCEPT !.delivery_status = v] : v \in {"pending", "assigned", Bogus}}
    \cup {[NoQuery EXCEPT !.payment_status = v] : v \in {"paid"}}
    \cup {[NoQuery EXCEPT !.customer_id = v] : v \in {"C1", "C2"}}
    \cup {[NoQuery EXCEPT !.driver_id = v] : v \in {"D1", "D2"}}
    \cup {[NoQuery EXCEPT !.search = v] : v \in {"elm", "oak"}}
    \cup {[NoQuery EXCEPT !.customer_id = "C2", !.driver_id = "D1"],
          [NoQuery EXCEPT !.customer_id = "C2", !.search = "oak"],
          [NoQuery EXCEPT !.driver_id = "D1", !.delivery_status = "pending"],
          [NoQuery EXCEPT !.limit = "1"],
          [NoQuery EXCEPT !.limit = "1", !.page = "2"],
          [NoQuery EXCEPT !.limit = "0"]}

ReadCallers == UserIds \ {"U0"}

GetRequests == {[caller |-> c, id |-> i] : c \in ReadCallers, i \in RowIds \cup {NoOrder, BadId}}
ListRequests == {[caller |-> c, query |-> q] : c \in ReadCallers, q \in Queries}
AvailableRequests == {[caller |-> c] : c \in ReadCallers}

\* What a read request does: its answer and the ids of the rows it returns,
\* in the order it returns them.
Answered(kind, rows) == [kind |-> kind, rows |-> rows]

\* parseInt of the page and limit parameters the validator lets through, and
\* their defaults.
DefaultPage == 1
DefaultLimit == 10
ParseInt(text) == CASE text = "1" -> 1 [] text = "2" -> 2 [] OTHER -> 0

validateOrderQuery(query) ==
    /\ query.page = Absent \/ ParseInt(query.page) >= 1
    /\ query.limit = Absent \/ (ParseInt(query.limit) >= 1 /\ ParseInt(query.limit) <= 100)
    /\ query.delivery_status = Absent \/ query.delivery_status \in DeliveryStatuses
    /\ query.payment_status = Absent \/ query.payment_status \in PaymentStatuses
    /\ query.customer_id # BadId
    /\ query.driver_id # BadId

\* The orderings of a set of rows: every sequence that holds each once.
Orderings(ids) ==
    {s \in [1..Cardinality(ids) -> ids] : \A i, j \in DOMAIN s : i # j => s[i] # s[j]}

\* ORDER BY created_at ASC or DESC: the database is free in the order of
\* the rows that have the same created_at.
OrderBy(ids, direction) ==
    {s \in Orderings(ids) :
        \A i \in DOMAIN s : \A j \in DOMAIN s :
            i < j => IF direction = "ASC"
                     THEN orders[s[i]].created_at <= orders[s[j]].created_at
                     ELSE orders[s[i]].created_at >= orders[s[j]].created_at}

\* LIMIT limit OFFSET offset
LimitOffset(rows, limit, offset) ==
    SubSeq(rows, offset + 1, IF offset + limit < Len(rows) THEN offset + limit ELSE Len(rows))

\* The rows a where clause selects: a key it does not hold is Absent, the
\* Op.or of the search is over the texts of the row.
Where(whereClause) ==
    {id \in DOMAIN orders :
        /\ orders[id] # NoRow
        /\ \A f \in {"customer_id", "driver_id", "delivery_status", "payment_status"} :
             whereClause[f] = Absent \/ orders[id][f] = whereClause[f]
        /\ whereClause.search = Absent \/ orders[id].pickup_address = whereClause.search}

\* getAllOrders, had it taken the customer_id and driver_id filters from
\* callers of every role.
getAllOrdersFiltersForAll(caller, query) ==
    LET role == users[caller].role
        page == IF query.page = Absent THEN DefaultPage ELSE ParseInt(query.page)
        limit == IF query.limit = Absent THEN DefaultLimit ELSE ParseInt(query.limit)
        offset == (page - 1) * limit
        whereClause ==
            [customer_id |-> IF query.customer_id # Absent
                             THEN query.customer_id
                             ELSE IF role = "customer" THEN caller ELSE Absent,
             driver_id |-> IF query.driver_id # Absent
                           THEN query.driver_id
                           ELSE IF role = "driver" THEN caller ELSE Absent,
             delivery_status |-> query.delivery_status,
             payment_status |-> query.payment_status,
             search |-> query.search] IN
    {Answered("OK", LimitOffset(rows, limit, offset)) : rows \in OrderBy(Where(whereClause), "DESC")}

\* getAllOrders: the where clause is scoped by the caller's role, then the
\* filters of the query are put into it, customer_id and driver_id for
\* admins only.
getAllOrders(caller, query) ==
    LET role == users[caller].role
        page == IF query.page = Absent THEN DefaultPage ELSE ParseInt(query.page)
        limit == IF query.limit = Absent THEN DefaultLimit ELSE ParseInt(query.limit)
        offset == (page - 1) * limit
        whereClause ==
            [customer_id |-> IF query.customer_id # Absent /\ role = "admin"
                             THEN query.customer_id
                             ELSE IF role = "customer" THEN caller ELSE Absent,
             driver_id |-> IF query.driver_id # Absent /\ role = "admin"
                           THEN query.driver_id
                           ELSE IF role = "driver" THEN caller ELSE Absent,
             delivery_status |-> query.delivery_status,
             payment_status |-> query.payment_status,
             search |-> query.search] IN
    {Answered("OK", LimitOffset(rows, limit, offset)) : rows \in OrderBy(Where(whereClause), "DESC")}

getOrderById(caller, id) ==
    LET order == IF id \in DOMAIN orders THEN orders[id] ELSE NoRow
        role == users[caller].role IN
    IF order = NoRow THEN {Answered("NotFound", <<>>)}
    ELSE IF role = "customer" /\ order.customer_id # caller
         THEN {Answered("AuthorizationDenied", <<>>)}
    ELSE IF role = "driver" /\ order.driver_id # caller
         THEN {Answered("AuthorizationDenied", <<>>)}
    ELSE {Answered("OK", <<id>>)}

\* getAvailableOrders, had it listed the newest order first as the other
\* lists do.
getAvailableOrdersNewestFirst(caller) ==
    LET whereClause ==
            [NoQuery EXCEPT !.delivery_status = "pending", !.driver_id = Null] IN
    IF users[caller].role # "driver" THEN {Answered("AuthorizationDenied", <<>>)}
    ELSE {Answered("OK", rows) : rows \in OrderBy(Where(whereClause), "DESC")}

getAvailableOrders(caller) ==
    LET whereClause ==
            [NoQuery EXCEPT !.delivery_status = "pending", !.driver_id = Null] IN
    IF users[caller].role # "driver" THEN {Answered("AuthorizationDenied", <<>>)}
    ELSE {Answered("OK", rows) : rows \in OrderBy(Where(whereClause), "ASC")}

\* The read routes of orderRoutes.js.
GetOrdersAvailable(caller) ==
    IF ~authenticateToken(caller) THEN {Answered("Unauthenticated", <<>>)}
    ELSE getAvailableOrders(caller)

GetOrders(caller, query) ==
    IF ~authenticateToken(caller) THEN {Answered("Unauthenticated", <<>>)}
    ELSE IF ~validateOrderQuery(query) THEN {Answered("ValidationError", <<>>)}
    ELSE getAllOrders(caller, query)

GetOrder(caller, id) ==
    IF ~authenticateToken(caller) THEN {Answered("Unauthenticated", <<>>)}
    ELSE IF ~validateUUID(id) THEN {Answered("ValidationError", <<>>)}
    ELSE getOrderById(caller, id)

\* A read request is answered: the history tells the route, whose request
\* it was, whether it succeeded and how many rows it returned.
AnswerRead(op, caller, answer) ==
    /\ last' = [op |-> op, ok |-> answer.kind = "OK",
                by |-> IF authenticateToken(caller) THEN users[caller].role ELSE "nobody",
                count |-> Len(answer.rows)]
    /\ UNCHANGED <<users, orders, assignedEver, inflight>>

ReadOne(caller, id) == \E answer \in GetOrder(caller, id) : AnswerRead("get", caller, answer)

ReadList(caller, query) ==
    \E answer \in GetOrders(caller, query) : AnswerRead("list", caller, answer)

ReadAvailable(caller) ==
    \E answer \in GetOrdersAvailable(caller) : AnswerRead("available", caller, answer)

InitRead ==
    /\ users = [u \in UserIds |->
                  CASE u = "A" -> [role |-> "admin", status |-> "active"]
                    [] u \in {"C1", "C2"} -> [role |-> "customer", status |-> "active"]
                    [] u \in {"D1", "D2"} -> [role |-> "driver", status |-> "active"]
                    [] u = "D3" -> [role |-> "driver", status |-> "suspended"]
                    [] OTHER -> NoRow]
    /\ orders \in [RowIds -> ListedRows]
    /\ assignedEver = [o \in OrderIds |-> FALSE]
    /\ last = [op |-> "none", ok |-> TRUE, by |-> "nobody", count |-> 0]
    /\ inflight = [p \in Procs |-> Idle]

NextRead ==
    \/ \E r \in GetRequests : ReadOne(r.caller, r.id)
    \/ \E r \in ListRequests : ReadList(r.caller, r.query)
    \/ \E r \in AvailableRequests : ReadAvailable(r.caller)

SpecRead == InitRead /\ [][NextRead]_vars

\* ----------------------------------------------------------------- races
\* Two requests at a time.  A handler of the order controller awaits twice
\* on the order: Order.findByPk(id), which hands it an instance holding the
\* row as it is then, and order.update(values), which sets the values on the
\* instance and saves it.  Between the two, the handler of the other
\* connection can run.  The requests are status updates, assignments and
\* cancellations of one order.

RaceRequests ==
    {[op |-> "status", caller |-> c, id |-> OrderKeys[1], driver_id |-> Absent,
      body |-> [delivery_status |-> d, payment_status |-> p]] :
        c \in {"A"}, d \in {"picked", "in_transit"}, p \in {Absent, "paid"}}
    \cup {[op |-> "status", caller |-> "D1", id |-> OrderKeys[1], driver_id |-> Absent,
           body |-> [delivery_status |-> "picked", payment_status |-> Absent]]}
    \cup {[op |-> "assign", caller |-> "A", id |-> OrderKeys[1], driver_id |-> d,
           body |-> NoFields] : d \in {"D1", "D2", "D3"}}
    \cup {[op |-> "cancel", caller |-> c, id |-> OrderKeys[1], driver_id |-> Absent,
           body |-> NoFields] : c \in {"C1", "C2", "A"}}

\* The order the requests race on: as createOrder left it, or as assignDriver
\* left it.
RaceRows ==
    {[customer_id |-> "C1", driver_id |-> Null, price |-> PriceKeys[1],
      payment_status |-> "pending", delivery_status |-> "pending"],
     [customer_id |-> "C1", driver_id |-> "D1", price |-> PriceKeys[1],
      payment_status |-> "pending", delivery_status |-> "assigned"]}

\* The request's route: what it answers on the table as the handler's
\* findByPk finds it.
RaceRoute(r) ==
    CASE r.op = "status" -> PutOrderStatus(r.caller, r.id, r.body)
      [] r.op = "assign" -> PutOrderAssign(r.caller, r.id, r.driver_id)
      [] r.op = "cancel" -> DeleteOrder(r.caller, r.id)

\* The values the request's handler gives order.update.
UpdateValues(r) ==
    CASE r.op = "status" ->
            [delivery_status |-> r.body.delivery_status,
             payment_status |-> IF users[r.caller].role = "admin"
                                THEN r.body.payment_status ELSE Absent]
      [] r.op = "assign" -> [driver_id |-> r.driver_id, delivery_status |-> "assigned"]
      [] r.op = "cancel" -> [delivery_status |-> "cancelled"]

\* The columns the UPDATE statement of instance.update(values) can set: the
\* keys of values, or those of them whose value differs from the instance's
\* (which of the two is the library's choice); none when no value differs.
SavedFields(instance, values) ==
    LET keys == {f \in Fields \cap DOMAIN values : values[f] # Absent}
        changed == {f \in keys : values[f] # instance[f]} IN
    IF changed = {} THEN {{}} ELSE {changed, keys}

\* InstanceSave, had the UPDATE been conditional on the row's delivery_status
\* being the one the instance was read with.
InstanceSaveIfUnchanged(row, instance, values, fields) ==
    IF row.delivery_status # instance.delivery_status THEN row
    ELSE [f \in Fields |-> IF f \in fields THEN SetFields(instance, values)[f] ELSE row[f]]

\* The row after the UPDATE: the saved columns hold the instance's values,
\* the others are as they were in the table.
InstanceSave(row, instance, values, fields) ==
    [f \in Fields |-> IF f \in fields THEN SetFields(instance, values)[f] ELSE row[f]]

\* The request arrives on an idle connection and runs up to its handler's
\* order.update: a request the route turns away is answered at once; one
\* that gets there holds the instance findByPk gave it.
Begin(p, r) ==
    /\ inflight[p].phase = "idle"
    /\ \E reply \in {RaceRoute(r)} :
         IF reply.kind = "OK"
         THEN /\ inflight' = [inflight EXCEPT ![p] =
                     [phase |-> "read", req |-> r, instance |-> FindOrder(r.id),
                      kind |-> "none"]]
              /\ UNCHANGED last
         ELSE /\ inflight' = [inflight EXCEPT ![p] =
                     [phase |-> "done", req |-> r, instance |-> FindOrder(r.id),
                      kind |-> reply.kind]]
              /\ last' = [op |-> r.op, kind |-> reply.kind, proc |-> p]
    /\ UNCHANGED <<users, orders, assignedEver>>

\* order.update(values) of the request in flight, and its answer.
Write(p) ==
    /\ inflight[p].phase = "read"
    /\ LET r == inflight[p].req IN
       /\ \E fields \in SavedFields(inflight[p].instance, UpdateValues(r)) :
            orders' = [orders EXCEPT
                         ![r.id] = InstanceSave(@, inflight[p].instance,
                                                UpdateValues(r), fields)]
       /\ inflight' = [inflight EXCEPT ![p].phase = "done", ![p].kind = "OK"]
       /\ last' = [op |-> r.op, kind |-> "OK", proc |-> p]
       /\ assignedEver' = [o \in OrderIds |-> assignedEver[o] \/ (r.op = "assign" /\ o = r.id)]
    /\ UNCHANGED users

InitRace ==
    /\ users = [u \in UserIds |->
                  CASE u = "A" -> [role |-> "admin", status |-> "active"]
                    [] u \in {"C1", "C2"} -> [role |-> "customer", status |-> "active"]
                    [] u \in {"D1", "D2"} -> [role |-> "driver", status |-> "active"]
                    [] u = "D3" -> [role |-> "driver", status |-> "suspended"]
                    [] OTHER -> NoRow]
    /\ orders \in [OrderIds -> RaceRows]
    /\ assignedEver = [o \in OrderIds |-> orders[o].driver_id # Null]
    /\ last = [op |-> "none", kind |-> "OK", proc |-> "none"]
    /\ inflight = [p \in Procs |-> Idle]

NextRace ==
    \/ \E p \in Procs : \E r \in RaceRequests : Begin(p, r)
    \/ \E p \in Procs : Write(p)

SpecRace == InitRace /\ [][NextRace]_vars

\* ---------------------------------------------------------------- users
\* The requests of userRoutes.js that read or write the Users table:
\* register, login, the own-profile update, the owner-or-admin user update
\* and the admin's delete.  A user row carries, besides role and status, the
\* two driver fields.  The order is one that assignDriver left assigned.

TooLong == "longer than the validator allows"

\* req.body of PUT /profile and PUT /users/:id: the fields the handler and
\* the User model read.  The bodies carry no email, phone or password.
NoUserFields ==
    [role |-> Absent, status |-> Absent, vehicle_number |-> Absent,
     license_number |-> Absent]

RoleStatusBodies ==
    {NoUserFields}
    \cup {[NoUserFields EXCEPT !.role = v] : v \in {"admin", "driver", Bogus}}
    \cup {[NoUserFields EXCEPT !.status = v] : v \in {"active", "inactive", Bogus}}

DriverFieldBodies ==
    {[NoUserFields EXCEPT !.vehicle_number = v] : v \in {"", TooLong}}
    \cup {[NoUserFields EXCEPT !.license_number = v] : v \in {TooLong}}

UserUpdateBodies == RoleStatusBodies \cup DriverFieldBodies

\* req.body of POST /register: the email and phone are those of no user
\* until one has registered with them.
RegisterBodies ==
    {[NoUserFields EXCEPT !.role = v] : v \in {Absent, "driver", Bogus}}
    \cup {[NoUserFields EXCEPT !.role = "driver", !.vehicle_number = "V2",
                               !.license_number = l] : l \in {"", "L2"}}
    \cup {[NoUserFields EXCEPT !.vehicle_number = "V2"]}

\* A well-formed id of no user, at any time.
NoUser == "no-such-user"

\* The requests on the Users table: the customer C1, the drivers D1 and D3
\* and an admin, about C1 and D1; the driver fields are sent by the driver.
ProfileRequests ==
    {[caller |-> c, body |-> b] : c \in {"C1", "D1", "D3", NoUser}, b \in RoleStatusBodies}
    \cup {[caller |-> "D1", body |-> b] : b \in DriverFieldBodies}
UserPutRequests ==
    {[caller |-> c, id |-> i, body |-> b] :
        c \in {"A", "C1", "D1"}, i \in {"C1", "D1"}, b \in RoleStatusBodies}
    \cup {[caller |-> c, id |-> i, body |-> NoUserFields] :
            c \in {"A", "C1", "D3"}, i \in {NoUser, BadId}}
UserDeleteRequests ==
    {[caller |-> c, id |-> i] : c \in {"A", "C1"}, i \in {"C1", "C2", NoUser, BadId}}
LoginRequests == {[user |-> u, password |-> ok] : u \in UserIds, ok \in BOOLEAN}

\* What a request on the Users table does: its answer and the table it
\* leaves.
UserReply(kind, store) == [kind |-> kind, users |-> store]

\* `!value` of a driver field
Empty(value) == value \in {Null, ""}

UserFields == {"role", "status", "vehicle_number", "license_number"}

\* The User model's validators as save() runs them: those of the attributes
\* that are saved, on the instance as it is then.
UserRowOk(row, fields) ==
    /\ "role" \in fields => row.role \in Roles
    /\ "status" \in fields => row.status \in UserStatuses
    /\ "vehicle_number" \in fields => ~(row.role = "driver" /\ Empty(row.vehicle_number))
    /\ "license_number" \in fields => ~(row.role = "driver" /\ Empty(row.license_number))

\* user.update(values) on the row with primary key id.
UserUpdate(id, values) ==
    LET fields == {f \in UserFields : values[f] # Absent}
        row == [f \in UserFields |-> IF f \in fields THEN values[f] ELSE users[id][f]] IN
    IF UserRowOk(row, fields) THEN UserReply("OK", [users EXCEPT ![id] = row])
    ELSE UserReply("ServerError", users)

\* User.create(userData): every attribute is saved; status takes its
\* defaultValue.  The new row gets the one id the model has left.
UserCreate(userData) ==
    LET row == [role |-> userData.role, status |-> "active",
                vehicle_number |-> userData.vehicle_number,
                license_number |-> userData.license_number] IN
    IF UserRowOk(row, UserFields) THEN UserReply("Created", [users EXCEPT !["U0"] = row])
    ELSE UserReply("ServerError", users)

\* The orders that hold the user's id in a foreign key.
OrdersOf(id) ==
    {o \in DOMAIN orders : orders[o] # NoRow /\ id \in {orders[o].customer_id, orders[o].driver_id}}

validateUserRegistration(body) ==
    /\ body.role = Absent \/ body.role \in Roles
    /\ body.role = "driver" =>
         /\ body.vehicle_number \notin {Absent, "", TooLong}
         /\ body.license_number \notin {Absent, "", TooLong}

validateUserUpdate(body) ==
    /\ body.vehicle_number # TooLong
    /\ body.license_number # TooLong
    /\ body.status = Absent \/ body.status \in UserStatuses

requireOwnershipOrAdmin(caller, id) == users[caller].role = "admin" \/ caller = id

registerUser(body) ==
    LET role == IF body.role = Absent THEN "customer" ELSE body.role
        existingUser == FindUser("U0") IN
    IF existingUser # NoRow THEN UserReply("ValidationError", users)
    ELSE UserCreate([role |-> role,
                     vehicle_number |-> IF role = "driver" /\ body.vehicle_number # Absent
                                        THEN body.vehicle_number ELSE Null,
                     license_number |-> IF role = "driver" /\ body.license_number # Absent
                                        THEN body.license_number ELSE Null])

\* loginUser: the email is that of `user`, the password is right or not.
loginUser(user, password) ==
    IF FindUser(user) = NoRow THEN UserReply("Unauthenticated", users)
    ELSE IF ~password THEN UserReply("Unauthenticated", users)
    ELSE IF users[user].status # "active" THEN UserReply("Unauthenticated", users)
    ELSE UserReply("OK", users)

\* updateUserProfile, had it deleted role and status from the body of a
\* caller who is not an admin.
updateUserProfileStripsRole(caller, userId, body) ==
    LET updateData == IF users[caller].role = "admin" THEN body
                      ELSE [body EXCEPT !.role = Absent, !.status = Absent] IN
    IF FindUser(userId) = NoRow THEN UserReply("NotFound", users)
    ELSE UserUpdate(userId, updateData)

\* updateUserProfile: userId is req.params.id or, on PUT /profile, the
\* caller's id; the body is given to user.update as it is.
updateUserProfile(caller, userId, body) ==
    IF FindUser(userId) = NoRow THEN UserReply("NotFound", users)
    ELSE UserUpdate(userId, body)

\* deleteUser: the database refuses to delete a row an order refers to.
deleteUser(caller, id) ==
    IF FindUser(id) = NoRow THEN UserReply("NotFound", users)
    ELSE IF id = caller THEN UserReply("ValidationError", users)
    ELSE IF OrdersOf(id) # {} THEN UserReply("ServerError", users)
    ELSE UserReply("OK", [users EXCEPT ![id] = NoRow])

\* The routes of userRoutes.js.
PostRegister(body) ==
    IF ~validateUserRegistration(body) THEN UserReply("ValidationError", users)
    ELSE registerUser(body)

PostLogin(user, password) == loginUser(user, password)

PutProfile(caller, body) ==
    IF ~authenticateToken(caller) THEN UserReply("Unauthenticated", users)
    ELSE IF ~validateUserUpdate(body) THEN UserReply("ValidationError", users)
    ELSE updateUserProfile(caller, caller, body)

PutUser(caller, id, body) ==
    IF ~authenticateToken(caller) THEN UserReply("Unauthenticated", users)
    ELSE IF ~validateUUID(id) THEN UserReply("ValidationError", users)
    ELSE IF ~validateUserUpdate(body) THEN UserReply("ValidationError", users)
    ELSE IF ~requireOwnershipOrAdmin(caller, id) THEN UserReply("AuthorizationDenied", users)
    ELSE updateUserProfile(caller, id, body)

DeleteUser(caller, id) ==
    IF ~authenticateToken(caller) THEN UserReply("Unauthenticated", users)
    ELSE IF ~validateUUID(id) THEN UserReply("ValidationError", users)
    ELSE IF ~requireAdmin(caller) THEN UserReply("AuthorizationDenied", users)
    ELSE deleteUser(caller, id)

\* The request is answered: the Users table is as the reply leaves it and
\* the history tells the route, the answer and whose token the request
\* carried (nobody's on the public routes).
AnswerUser(op, caller, reply) ==
    /\ users' = reply.users
    /\ last' = [op |-> op, kind |-> reply.kind, by |-> caller]
    /\ UNCHANGED <<orders, assignedEver, inflight>>

Register(body) ==
    \E reply \in {PostRegister(body)} : AnswerUser("register", "nobody", reply)

Login(user, password) ==
    \E reply \in {PostLogin(user, password)} : AnswerUser("login", "nobody", reply)

Profile(caller, body) ==
    \E reply \in {PutProfile(caller, body)} : AnswerUser("profile", caller, reply)

UserPut(caller, id, body) ==
    \E reply \in {PutUser(caller, id, body)} : AnswerUser("user", caller, reply)

UserDelete(caller, id) ==
    \E reply \in {DeleteUser(caller, id)} : AnswerUser("delete", caller, reply)

InitUsers ==
    /\ users = [u \in UserIds |->
                  CASE u = "A" -> [role |-> "admin", status |-> "active",
                                   vehicle_number |-> Null, license_number |-> Null]
                    [] u \in {"C1", "C2"} -> [role |-> "customer", status |-> "active",
                                              vehicle_number |-> Null, license_number |-> Null]
                    [] u \in {"D1", "D2"} -> [role |-> "driver", status |-> "active",
                                              vehicle_number |-> "V1", license_number |-> "L1"]
                    [] u = "D3" -> [role |-> "driver", status |-> "suspended",
                                    vehicle_number |-> "V1", license_number |-> "L1"]
                    [] OTHER -> NoRow]
    /\ orders = [o \in OrderIds |->
                   [customer_id |-> "C1", driver_id |-> "D1", price |-> PriceKeys[1],
                    payment_status |-> "pending", delivery_status |-> "assigned"]]
    /\ assignedEver = [o \in OrderIds |-> TRUE]
    /\ last = [op |-> "none", kind |-> "OK", by |-> "nobody"]
    /\ inflight = [p \in Procs |-> Idle]

NextUsers ==
    \/ \E b \in RegisterBodies : Register(b)
    \/ \E r \in LoginRequests : Login(r.user, r.password)
    \/ \E r \in ProfileRequests : Profile(r.caller, r.body)
    \/ \E r \in UserPutRequests : UserPut(r.caller, r.id, r.body)
    \/ \E r \in UserDeleteRequests : UserDelete(r.caller, r.id)

SpecUsers == InitUsers /\ [][NextUsers]_vars

\* ---------------------------------------------------------------- claims

\* The rows of the table, and the callers req.user.role tells apart.
Existing == {o \in OrderIds : orders[o] # NoRow}
As(role) == {c \in UserIds : authenticateToken(c) /\ users[c].role = role}
Terminal == {"delivered", "cancelled"}

\* The delivery_status of order o after the request with this reply.
StatusAfter(reply, o) == reply.orders[o].delivery_status

\* C1: delivered and cancelled are terminal: no request of any route, by any
\* caller, changes the delivery_status of an order that is delivered or
\* cancelled; and a status update by the driver of a cancelled order is
\* answered InvalidState.
C1_TerminalIsFinal ==
    \A o \in Existing :
        orders[o].delivery_status \in Terminal =>
            /\ \A r \in UpdateRequests :
                 StatusAfter(PutOrder(r.caller, r.id, r.body), o) = orders[o].delivery_status
            /\ \A r \in StatusRequests :
                 StatusAfter(PutOrderStatus(r.caller, r.id, r.body), o) = orders[o].delivery_status
            /\ \A r \in AssignRequests :
                 StatusAfter(PutOrderAssign(r.caller, r.id, r.driver_id), o) = orders[o].delivery_status
            /\ \A r \in CancelRequests :
                 StatusAfter(DeleteOrder(r.caller, r.id), o) = orders[o].delivery_status
            /\ \A r \in StatusRequests :
                 (/\ r.id = o /\ r.caller \in As("driver")
                  /\ orders[o].driver_id = r.caller
                  /\ orders[o].delivery_status = "cancelled"
                  /\ validateStatusUpdate(r.body))
                 => PutOrderStatus(r.caller, r.id, r.body).kind = "InvalidState"

\* C2: a cancel request succeeds only for the owning customer or an admin and
\* only on an order that is neither delivered nor cancelled; on success the
\* order's delivery_status is cancelled; a cancel request by a driver or by
\* a customer who does not own the order leaves the table unchanged.
C2_CancelOwnerOrAdmin ==
    \A r \in CancelRequests :
        LET reply == DeleteOrder(r.caller, r.id) IN
        /\ reply.kind = "OK" =>
             /\ r.id \in Existing
             /\ \/ r.caller \in As("admin")
                \/ r.caller \in As("customer") /\ orders[r.id].customer_id = r.caller
             /\ orders[r.id].delivery_status \notin Terminal
             /\ reply.orders = [orders EXCEPT ![r.id].delivery_status = "cancelled"]
        /\ (\/ r.caller \in As("driver")
            \/ r.caller \in As("customer") /\ r.id \in Existing
                                           /\ orders[r.id].customer_id # r.caller)
           => reply.orders = orders

\* C3: no successful request by a driver, on the status route or on the
\* general update route, writes delivery_status pending, assigned or
\* cancelled: a driver writes picked, in_transit or delivered only.
C3_DriverWritesForwardOnly ==
    /\ \A r \in StatusRequests :
         (r.caller \in As("driver") /\ PutOrderStatus(r.caller, r.id, r.body).kind = "OK"
          /\ r.body.delivery_status # Absent)
         => r.body.delivery_status \in {"picked", "in_transit", "delivered"}
    /\ \A r \in UpdateRequests :
         (r.caller \in As("driver") /\ PutOrder(r.caller, r.id, r.body).kind = "OK"
          /\ r.body.delivery_status # Absent)
         => r.body.delivery_status \in {"picked", "in_transit", "delivered"}

\* C4 as stated: driver_id is null exactly when the order is pending and no
\* driver assignment has occurred on it.
C4_NullIffPendingUnassigned ==
    \A o \in Existing :
        orders[o].driver_id = Null
            <=> (orders[o].delivery_status = "pending" /\ ~assignedEver[o])

\* C4 as amended: an order on which no admin has assigned a driver has a
\* null driver_id, whatever its delivery_status.
C4_NullUntilAssigned ==
    \A o \in Existing : ~assignedEver[o] => orders[o].driver_id = Null

\* A never-assigned order has been cancelled: it is not pending, and has no
\* driver.
C4_Witness ==
    /\ last.op = "cancel" /\ last.kind = "OK"
    /\ \E o \in Existing :
         /\ ~assignedEver[o]
         /\ orders[o].delivery_status = "cancelled"
         /\ orders[o].driver_id = Null

\* C5: payment_status is written by admins only: no general update, status
\* update or cancel request by a caller who is not an admin changes the
\* payment_status of any order, and an order is created with payment_status
\* pending, the other orders' payment_status unchanged.
C5_PaymentStatusAdminOnly ==
    LET Same(reply) ==
            \A o \in Existing : reply.orders[o].payment_status = orders[o].payment_status IN
    /\ \A r \in UpdateRequests :
         r.caller \notin As("admin") => Same(PutOrder(r.caller, r.id, r.body))
    /\ \A r \in StatusRequests :
         r.caller \notin As("admin") => Same(PutOrderStatus(r.caller, r.id, r.body))
    /\ \A r \in CancelRequests :
         r.caller \notin As("admin") => Same(DeleteOrder(r.caller, r.id))
    /\ \A r \in CreateRequests :
         LET reply == PostOrders(r.caller, r.body) IN
         /\ Same(reply)
         /\ (reply.kind = "Created" /\ ~TableFull)
            => reply.orders[NextOrderId].payment_status = "pending"

\* A caller who is not an admin has asked for a status update of an order
\* whose payment is still pending, and was denied.
C5_Witness ==
    /\ last.op = "status" /\ last.kind = "AuthorizationDenied"
    /\ \E o \in Existing :
         orders[o].payment_status = "pending" /\ orders[o].driver_id \in As("driver")

\* C6: a well-formed status update by a driver on an existing order whose
\* driver_id is not the caller (null included) is answered
\* AuthorizationDenied, 403, whatever statuses it asks for, and leaves the
\* table unchanged.
C6_ForeignDriverDenied ==
    \A r \in StatusRequests :
        (/\ r.caller \in As("driver")
         /\ r.id \in Existing
         /\ orders[r.id].driver_id # r.caller
         /\ validateStatusUpdate(r.body))
        => LET reply == PutOrderStatus(r.caller, r.id, r.body) IN
           /\ reply.kind = "AuthorizationDenied"
           /\ HttpStatus(reply.kind) = 403
           /\ reply.orders = orders

\* A status update was denied on an order that has no driver.
C6_Witness ==
    /\ last.op = "status" /\ last.kind = "AuthorizationDenied"
    /\ \E o \in Existing :
         orders[o].driver_id = Null /\ orders[o].delivery_status = "pending"

\* C7: a well-formed assign request succeeds iff the caller is an admin, the
\* order exists and is pending, and the target user exists, is a driver and
\* is active; then driver_id is the target and delivery_status is assigned,
\* nothing else changed.  An admin's request on an order that is not pending
\* is answered InvalidState, on a pending order with any other target
\* NotFound, and every request that does not succeed leaves the table
\* unchanged.
C7_AssignDriver ==
    \A r \in AssignRequests :
        LET reply == PutOrderAssign(r.caller, r.id, r.driver_id)
            targetOk ==
                /\ r.driver_id \in UserIds
                /\ users[r.driver_id] # NoRow
                /\ users[r.driver_id].role = "driver"
                /\ users[r.driver_id].status = "active"
            pending == r.id \in Existing /\ orders[r.id].delivery_status = "pending" IN
        /\ reply.kind = "OK" <=> (r.caller \in As("admin") /\ pending /\ targetOk)
        /\ reply.kind = "OK" =>
             reply.orders = [orders EXCEPT ![r.id].driver_id = r.driver_id,
                                           ![r.id].delivery_status = "assigned"]
        /\ reply.kind # "OK" => reply.orders = orders
        /\ (r.caller \in As("admin") /\ r.driver_id # BadId /\ r.id \in Existing) =>
             /\ ~pending => reply.kind = "InvalidState"
             /\ (pending /\ ~targetOk) => reply.kind = "NotFound"

\* An admin has assigned a driver to an order.
C7_Witness ==
    /\ last.op = "assign" /\ last.kind = "OK"
    /\ orders[last.oid].delivery_status = "assigned"
    /\ orders[last.oid].driver_id \in {"D1", "D2"}

\* C8: right after a successful assignDriver on an order, every well-formed
\* assign request by an admin on that order, whatever driver it names, is
\* answered InvalidState, and the order keeps its driver_id and its
\* delivery_status assigned.
C8_SecondAssignRejected ==
    (last.op = "assign" /\ last.kind = "OK") =>
        \A r \in AssignRequests :
            (r.id = last.oid /\ r.caller \in As("admin") /\ r.driver_id # BadId)
            => LET reply == PutOrderAssign(r.caller, r.id, r.driver_id) IN
               /\ reply.kind = "InvalidState"
               /\ reply.orders[r.id].driver_id = orders[r.id].driver_id
               /\ reply.orders[r.id].delivery_status = "assigned"

\* An assign request was answered InvalidState on an order that an admin had
\* assigned and that is still assigned to that driver.
C8_Witness ==
    /\ last.op = "assign" /\ last.kind = "InvalidState"
    /\ \E o \in Existing :
         /\ assignedEver[o]
         /\ orders[o].delivery_status = "assigned"
         /\ orders[o].driver_id \in {"D1", "D2"}

\* C9: a cancel request on an order that is delivered or cancelled never
\* succeeds and leaves the table unchanged; from the order's owner or an
\* admin it is answered InvalidState.  So is, right after a successful
\* cancel, a second cancel of the same order.
C9_CancelTerminalRejected ==
    /\ \A r \in CancelRequests :
         (r.id \in Existing /\ orders[r.id].delivery_status \in Terminal)
         => LET reply == DeleteOrder(r.caller, r.id) IN
            /\ reply.kind # "OK"
            /\ reply.orders = orders
            /\ (\/ r.caller \in As("admin")
                \/ r.caller \in As("customer") /\ orders[r.id].customer_id = r.caller)
               => reply.kind = "InvalidState"
    /\ (last.op = "cancel" /\ last.kind = "OK") =>
         \A c \in As("admin") \cup {orders[last.oid].customer_id} :
            authenticateToken(c) => DeleteOrder(c, last.oid).kind = "InvalidState"

\* A cancel request was answered InvalidState on a cancelled order.
C9_Witness ==
    /\ last.op = "cancel" /\ last.kind = "InvalidState"
    /\ \E o \in Existing : orders[o].delivery_status = "cancelled"

\* C10: a well-formed create request by a customer or an admin adds one
\* order, with delivery_status pending, payment_status pending, driver_id
\* null and customer_id the caller, whatever else the body carries, and
\* leaves the other orders as they were; by a driver it is denied and the
\* table is unchanged.
C10_Create ==
    \A r \in CreateRequests :
        (authenticateToken(r.caller) /\ validateOrderCreation(r.body) /\ ~TableFull)
        => LET reply == PostOrders(r.caller, r.body) IN
           /\ r.caller \in As("customer") \cup As("admin") =>
                /\ reply.kind = "Created"
                /\ reply.orders[NextOrderId] # NoRow
                /\ reply.orders[NextOrderId].delivery_status = "pending"
                /\ reply.orders[NextOrderId].payment_status = "pending"
                /\ reply.orders[NextOrderId].driver_id = Null
                /\ reply.orders[NextOrderId].customer_id = r.caller
                /\ \A o \in OrderIds \ {NextOrderId} : reply.orders[o] = orders[o]
           /\ r.caller \in As("driver") =>
                /\ reply.kind = "AuthorizationDenied"
                /\ reply.orders = orders

\* An admin has created an order: it is the admin's own, pending, unpaid and
\* without a driver.
C10_Witness ==
    /\ last.op = "create" /\ last.kind = "Created"
    /\ orders[last.oid].customer_id = "A"
    /\ orders[last.oid].delivery_status = "pending"
    /\ orders[last.oid].driver_id = Null

\* C11 as stated: a general update by a customer, with a body the request
\* validator accepts, on an existing order that is not pending is answered
\* InvalidState, 400, and leaves the table unchanged.
C11_CustomerUpdateNotPending ==
    \A r \in UpdateRequests :
        (/\ r.caller \in As("customer")
         /\ r.id \in Existing
         /\ orders[r.id].delivery_status # "pending"
         /\ validateOrderUpdate(r.body))
        => \A reply \in {PutOrder(r.caller, r.id, r.body)} :
              /\ reply.kind = "InvalidState"
              /\ HttpStatus(reply.kind) = 400
              /\ reply.orders = orders

\* On an existing order that is not pending, a general update by the
\* customer who owns it, with any body the request validator accepts, is
\* answered InvalidState, 400; by another customer it is answered
\* AuthorizationDenied, 403; either way the table is unchanged.
OwnerUpdateNotPending ==
    \A r \in UpdateRequests :
        (/\ r.caller \in As("customer")
         /\ r.id \in Existing
         /\ orders[r.id].delivery_status # "pending"
         /\ validateOrderUpdate(r.body))
        => \A reply \in {PutOrder(r.caller, r.id, r.body)} :
              /\ reply.orders = orders
              /\ orders[r.id].customer_id = r.caller
                 => reply.kind = "InvalidState" /\ HttpStatus(reply.kind) = 400
              /\ orders[r.id].customer_id # r.caller
                 => reply.kind = "AuthorizationDenied" /\ HttpStatus(reply.kind) = 403

\* C11 as amended: in every reachable state, a general update of an order
\* that is not pending is answered InvalidState, 400, when the caller is the
\* customer who owns it and AuthorizationDenied, 403, when the caller is
\* another customer, and leaves the table unchanged.
C11_OwnerUpdateNotPending == []OwnerUpdateNotPending

\* A general update was answered InvalidState on a customer's order that is
\* not pending.
C11_Witness ==
    /\ last.op = "update" /\ last.kind = "InvalidState"
    /\ \E o \in Existing :
         /\ orders[o].delivery_status # "pending"
         /\ orders[o].customer_id \in As("customer")

\* The body carries a field the customer branch of updateOrder deletes.
Restricted(body) ==
    \/ body.delivery_status # Absent
    \/ body.payment_status # Absent
    \/ body.driver_id # Absent

\* C12: a general update by the owning customer on a pending order, with a
\* body the request validator accepts that carries delivery_status,
\* payment_status or driver_id, is answered OK, 200: the price the body
\* carries is written, and delivery_status, payment_status and driver_id
\* are as they were, as is every other row.
C12_RestrictedFieldsStripped ==
    \A r \in UpdateRequests :
        (/\ r.caller \in As("customer")
         /\ r.id \in Existing
         /\ orders[r.id].customer_id = r.caller
         /\ orders[r.id].delivery_status = "pending"
         /\ validateOrderUpdate(r.body)
         /\ Restricted(r.body))
        => \A reply \in {PutOrder(r.caller, r.id, r.body)} :
              /\ reply.kind = "OK" /\ HttpStatus(reply.kind) = 200
              /\ reply.orders[r.id].price =
                    IF r.body.price = Absent THEN orders[r.id].price ELSE r.body.price
              /\ reply.orders[r.id].delivery_status = orders[r.id].delivery_status
              /\ reply.orders[r.id].payment_status = orders[r.id].payment_status
              /\ reply.orders[r.id].driver_id = orders[r.id].driver_id
              /\ \A o \in OrderIds \ {r.id} : reply.orders[o] = orders[o]

\* A customer's general update has succeeded on a customer's order that is
\* still pending, without a driver and unpaid, and carries the price that
\* the bodies with a restricted field carry.
C12_Witness ==
    /\ last.op = "update" /\ last.by = "customer" /\ last.ok
    /\ \E o \in Existing :
         /\ orders[o].customer_id \in As("customer")
         /\ orders[o].delivery_status = "pending"
         /\ orders[o].payment_status = "pending"
         /\ orders[o].driver_id = Null
         /\ orders[o].price = PriceKeys[MaxPrice]

\* A status update by a customer, whatever its :id and body, is answered
\* AuthorizationDenied, 403, and leaves the table unchanged.
CustomerStatusDenied ==
    \A r \in StatusRequests :
        r.caller \in As("customer")
        => \A reply \in {PutOrderStatus(r.caller, r.id, r.body)} :
              /\ reply.kind = "AuthorizationDenied"
              /\ HttpStatus(reply.kind) = 403
              /\ reply.orders = orders

\* A request by a customer leaves the delivery_status of every order as it
\* was, unless it is a cancel request and makes it cancelled.
CustomerStep ==
    last'.by = "customer" =>
        \A o \in Existing :
            \/ orders'[o].delivery_status = orders[o].delivery_status
            \/ last'.op = "cancel" /\ orders'[o].delivery_status = "cancelled"

\* C13: a status update by a customer is always answered
\* AuthorizationDenied, 403, with the table unchanged, and no request by a
\* customer on any route changes the delivery_status of an order, except a
\* cancel request, which makes it cancelled.
C13_CustomerNeverMovesStatus == []CustomerStatusDenied /\ [][CustomerStep]_vars

\* A customer's status update has failed on an order that is on its way.
C13_Witness ==
    /\ last.op = "status" /\ last.by = "customer" /\ ~last.ok
    /\ \E o \in Existing :
         /\ orders[o].customer_id \in As("customer")
         /\ orders[o].delivery_status = "in_transit"

\* The reply leaves the table as it was but for the delivery_status of the
\* row id.
OnlyStatusWritten(reply, id) ==
    /\ id \in Existing
    /\ reply.orders = [orders EXCEPT ![id].delivery_status = reply.orders[id].delivery_status]

\* A status update or general update by a driver succeeds only on an order
\* whose driver_id is the caller, and then leaves every field but
\* delivery_status (price, payment_status, driver_id, customer_id) and every
\* other row unchanged; when it does not succeed it leaves the table
\* unchanged.  No other request by a driver writes a field other than
\* delivery_status either.
DriverRequests ==
    /\ \A r \in StatusRequests :
         r.caller \in As("driver")
         => \A reply \in {PutOrderStatus(r.caller, r.id, r.body)} :
               IF reply.kind = "OK"
               THEN OnlyStatusWritten(reply, r.id) /\ orders[r.id].driver_id = r.caller
               ELSE reply.orders = orders
    /\ \A r \in UpdateRequests :
         r.caller \in As("driver")
         => \A reply \in {PutOrder(r.caller, r.id, r.body)} :
               IF reply.kind = "OK"
               THEN OnlyStatusWritten(reply, r.id) /\ orders[r.id].driver_id = r.caller
               ELSE reply.orders = orders
    /\ \A r \in CancelRequests :
         r.caller \in As("driver")
         => \A reply \in {DeleteOrder(r.caller, r.id)} :
               IF reply.kind = "OK" THEN OnlyStatusWritten(reply, r.id)
               ELSE reply.orders = orders
    /\ \A r \in CreateRequests :
         r.caller \in As("driver") => PostOrders(r.caller, r.body).orders = orders
    /\ \A r \in AssignRequests :
         r.caller \in As("driver")
         => PutOrderAssign(r.caller, r.id, r.driver_id).orders = orders

\* A request by a driver leaves every row as it was but for its
\* delivery_status, and makes no row.
DriverStep ==
    last'.by = "driver" =>
        \A o \in OrderIds :
            IF o \in Existing
            THEN orders'[o] = [orders[o] EXCEPT !.delivery_status = orders'[o].delivery_status]
            ELSE orders'[o] = NoRow

\* C14: a driver writes delivery_status only, and on the status route and
\* the general update route only on an order whose driver_id is the caller:
\* every successful request by a driver on these routes is on such an
\* order, and every request by a driver leaves price, payment_status,
\* driver_id and customer_id of every order unchanged.
C14_DriverWritesStatusOnly == []DriverRequests /\ [][DriverStep]_vars

\* A driver's general update has succeeded, on an order that is the
\* driver's and is in transit.
C14_Witness ==
    /\ last.op = "update" /\ last.by = "driver" /\ last.ok
    /\ \E o \in Existing :
         /\ orders[o].driver_id \in As("driver")
         /\ orders[o].delivery_status = "in_transit"

\* A request by a caller who is not an admin leaves the driver_id of every
\* order that has one as it was.
NonAdminStep ==
    last'.by # "admin" =>
        \A o \in Existing :
            orders[o].driver_id # Null => orders'[o].driver_id = orders[o].driver_id

\* C15: no request by a caller who is not an admin (general update, status
\* update, cancel or any other) changes the driver_id of an order that has
\* one.
C15_DriverIdAdminOnly == [][NonAdminStep]_vars

\* A customer has cancelled an order that has a driver: it still has one.
C15_Witness ==
    /\ last.op = "cancel" /\ last.by = "customer" /\ last.ok
    /\ \E o \in Existing :
         /\ orders[o].delivery_status = "cancelled"
         /\ orders[o].driver_id \in As("driver")

\* The stages of the forward path, and a change of delivery_status that
\* goes to a later stage of it or to cancelled.
Stage(status) ==
    CASE status = "pending" -> 1
      [] status = "assigned" -> 2
      [] status = "picked" -> 3
      [] status = "in_transit" -> 4
      [] status = "delivered" -> 5
      [] OTHER -> 6
Forward(old, new) ==
    \/ new = "cancelled"
    \/ old # "cancelled" /\ Stage(new) > Stage(old)

MonotonicStep ==
    \A o \in Existing :
        orders'[o].delivery_status # orders[o].delivery_status
        => Forward(orders[o].delivery_status, orders'[o].delivery_status)

\* C16 as stated: every change of an order's delivery_status, by any request
\* of any caller, goes to a later stage of pending < assigned < picked <
\* in_transit < delivered, or to cancelled.
C16_Monotonic == [][MonotonicStep]_vars

\* Every change of delivery_status is made by a successful request; by an
\* assign request it goes from pending to assigned, by a cancel request from
\* a status that is neither delivered nor cancelled to cancelled, and a
\* change that is not forward is made by a status update or general update
\* of an admin or of a driver, on an order that has a driver when it is a
\* driver's.
ChangeStep ==
    \A o \in Existing :
        LET old == orders[o].delivery_status
            new == orders'[o].delivery_status IN
        new # old =>
            /\ last'.ok
            /\ last'.op = "assign" => old = "pending" /\ new = "assigned"
            /\ last'.op = "cancel" => old \notin Terminal /\ new = "cancelled"
            /\ last'.op \notin {"assign", "cancel"} =>
                 /\ last'.op \in {"status", "update"}
                 /\ last'.by \in {"admin", "driver"}
                 /\ last'.by = "driver" => orders[o].driver_id \in As("driver")
            /\ ~Forward(old, new) => last'.op \in {"status", "update"}

\* C16 as amended: delivery_status is monotonic under assign (pending to
\* assigned only), cancel (to cancelled only, and not from delivered or
\* cancelled) and the requests of customers; every other change, and every
\* change to an earlier stage, is made by a status update or a general
\* update of an admin or of the order's driver.
C16_MonotonicButStatusWrites == [][ChangeStep]_vars

\* A status update has succeeded and left an order pending that has the
\* driver an assign request gave it: it went back from assigned or later.
C16_Witness ==
    /\ last.op = "status" /\ last.ok
    /\ \E o \in Existing :
         /\ orders[o].delivery_status = "pending"
         /\ orders[o].driver_id \in As("driver")

\* C17: a status update by an admin on an existing order, with a body the
\* request validator accepts, is answered OK, 200, whatever the order's
\* delivery_status and payment_status are: the statuses the body carries
\* are written, both in the one call when it carries both, and every other
\* field and row is unchanged.
C17_AdminStatusUpdate ==
    \A r \in StatusRequests :
        (r.caller \in As("admin") /\ r.id \in Existing /\ validateStatusUpdate(r.body))
        => \A reply \in {PutOrderStatus(r.caller, r.id, r.body)} :
              /\ reply.kind = "OK" /\ HttpStatus(reply.kind) = 200
              /\ reply.orders =
                    [orders EXCEPT
                        ![r.id].delivery_status =
                            IF r.body.delivery_status = Absent THEN @
                            ELSE r.body.delivery_status,
                        ![r.id].payment_status =
                            IF r.body.payment_status = Absent THEN @
                            ELSE r.body.payment_status]

\* An admin's status update has succeeded and left a paid order pending
\* with the driver an assign request gave it.
C17_Witness ==
    /\ last.op = "status" /\ last.by = "admin" /\ last.ok
    /\ \E o \in Existing :
         /\ orders[o].delivery_status = "pending"
         /\ orders[o].payment_status = "paid"
         /\ orders[o].driver_id \in As("driver")

\* Every row of the Orders table has a delivery_status among the six values
\* and a payment_status among the three, and every request that carries
\* another value for either leaves the statuses of every row unchanged.
StatusesInEnum ==
    /\ \A o \in Existing :
         /\ orders[o].delivery_status \in DeliveryStatuses
         /\ orders[o].payment_status \in PaymentStatuses
    /\ \A r \in UpdateRequests :
         (r.body.delivery_status = Bogus \/ r.body.payment_status = Bogus)
         => \A reply \in {PutOrder(r.caller, r.id, r.body)} :
               /\ \A o \in Existing :
                    /\ reply.orders[o].delivery_status = orders[o].delivery_status
                    /\ reply.orders[o].payment_status = orders[o].payment_status
               /\ (r.caller \in As("admin") /\ r.id \in Existing)
                  => reply.kind = "ServerError"
    /\ \A r \in StatusRequests :
         (r.body.delivery_status = Bogus \/ r.body.payment_status = Bogus)
         => PutOrderStatus(r.caller, r.id, r.body).orders = orders

\* C18: in every reachable state every stored order has a delivery_status
\* among the six values and a payment_status among the three; a request
\* that carries another value persists nothing, and an admin's general
\* update that does is answered 500.
C18_StatusesInEnum == []StatusesInEnum

\* A general update was answered 500 because the row it made was not valid,
\* and the order has the statuses it had.
C18_Witness ==
    /\ last.op = "update" /\ last.kind = "ServerError"
    /\ HttpStatus(last.kind) = 500
    /\ \E o \in Existing :
         /\ orders[o].delivery_status \in DeliveryStatuses
         /\ orders[o].payment_status \in PaymentStatuses

\* The row is one the spec lets the caller read: any row for an admin, the
\* customer's own orders, the orders the driver is assigned to.
InScope(caller, row) ==
    \/ users[caller].role = "admin"
    \/ users[caller].role = "customer" /\ row.customer_id = caller
    \/ users[caller].role = "driver" /\ row.driver_id = caller

\* C19: fetching an order by id succeeds exactly when the caller is
\* authenticated and the row is in the caller's scope (always for an admin,
\* own orders for a customer, assigned orders for a driver), and is
\* answered AuthorizationDenied otherwise; and every row a listing returns,
\* under every query (filters on delivery_status, payment_status,
\* customer_id, driver_id, search, page and limit), is in the caller's
\* scope.
C19_ReadsAreScoped ==
    /\ \A r \in GetRequests :
         r.id \in RowIds
         => \A answer \in GetOrder(r.caller, r.id) :
               /\ answer.kind = "OK"
                  <=> (authenticateToken(r.caller) /\ InScope(r.caller, orders[r.id]))
               /\ answer.kind = "OK" => answer.rows = <<r.id>>
               /\ (authenticateToken(r.caller) /\ answer.kind # "OK")
                  => answer.kind = "AuthorizationDenied" /\ answer.rows = <<>>
    /\ \A r \in ListRequests :
         \A answer \in GetOrders(r.caller, r.query) :
            /\ answer.kind # "OK" => answer.rows = <<>>
            /\ \A i \in DOMAIN answer.rows :
                 /\ authenticateToken(r.caller)
                 /\ InScope(r.caller, orders[answer.rows[i]])

\* A customer's listing has returned a row, on a table that holds an order
\* of each customer.
C19_Witness ==
    /\ last.op = "list" /\ last.by = "customer" /\ last.ok /\ last.count = 1
    /\ \E a, b \in RowIds :
         orders[a].customer_id = "C1" /\ orders[b].customer_id = "C2"

\* The orders the availability query is to return.
AvailableRows == {id \in RowIds : orders[id].delivery_status = "pending"
                                  /\ orders[id].driver_id = Null}

\* C20: the availability query returns, to a caller whose role is driver,
\* exactly the orders that are pending and have no driver, each once, an
\* order never before one that was created earlier; to a customer or an
\* admin it is answered AuthorizationDenied and returns nothing.
C20_AvailableOldestFirst ==
    \A r \in AvailableRequests :
        authenticateToken(r.caller)
        => \A answer \in GetOrdersAvailable(r.caller) :
              IF users[r.caller].role = "driver"
              THEN /\ answer.kind = "OK"
                   /\ {answer.rows[i] : i \in DOMAIN answer.rows} = AvailableRows
                   /\ Len(answer.rows) = Cardinality(AvailableRows)
                   /\ \A i, j \in DOMAIN answer.rows :
                        i < j => orders[answer.rows[i]].created_at
                                    <= orders[answer.rows[j]].created_at
              ELSE /\ answer.kind = "AuthorizationDenied"
                   /\ HttpStatus(answer.kind) = 403
                   /\ answer.rows = <<>>

\* A driver's availability query has returned two orders that were created
\* at different times.
C20_Witness ==
    /\ last.op = "available" /\ last.by = "driver" /\ last.ok /\ last.count = 2
    /\ \E a, b \in AvailableRows : orders[a].created_at < orders[b].created_at

\* Both connections have answered a request of this route, and both
\* handlers read the order while its delivery_status was `status`: neither
\* had written when the other read.
BothRead(p, q, status) ==
    /\ p # q
    /\ inflight[p].phase = "done" /\ inflight[q].phase = "done"
    /\ inflight[p].req.id = inflight[q].req.id
    /\ inflight[p].instance # NoRow /\ inflight[q].instance # NoRow
    /\ inflight[p].instance.delivery_status = status
    /\ inflight[q].instance.delivery_status = status

\* C21: of two concurrent admin status updates of an order that both read
\* as assigned, one to picked and one to in_transit, one is answered OK and
\* its value is the order's delivery_status; the other is answered Conflict.
C21_LoserGetsConflict ==
    \A p \in Procs : \A q \in Procs :
        (/\ BothRead(p, q, "assigned")
         /\ inflight[p].req.op = "status" /\ inflight[q].req.op = "status"
         /\ inflight[p].req.caller \in As("admin") /\ inflight[q].req.caller \in As("admin")
         /\ inflight[p].req.body.delivery_status = "picked"
         /\ inflight[q].req.body.delivery_status = "in_transit")
        => /\ {inflight[p].kind, inflight[q].kind} = {"OK", "Conflict"}
           /\ \A w \in {p, q} :
                inflight[w].kind = "OK"
                => orders[inflight[w].req.id].delivery_status
                       = inflight[w].req.body.delivery_status

\* C25: when the owning customer's cancel and an admin's assignment of an
\* active driver both read the order as pending, both are answered OK and
\* the order's delivery_status is the one the later of the two wrote.
C25_CancelAssignRace ==
    \A p \in Procs : \A q \in Procs :
        (/\ BothRead(p, q, "pending")
         /\ inflight[p].req.op = "cancel"
         /\ inflight[p].req.caller \in As("customer")
         /\ inflight[p].req.caller = inflight[p].instance.customer_id
         /\ inflight[q].req.op = "assign"
         /\ inflight[q].req.caller \in As("admin")
         /\ inflight[q].req.driver_id \in As("driver"))
        => /\ inflight[p].kind = "OK" /\ inflight[q].kind = "OK"
           /\ orders[inflight[p].req.id].delivery_status
                  = IF last.proc = p THEN "cancelled" ELSE "assigned"

\* The cancellation and the assignment of a pending order were both
\* acknowledged, both having read it as pending, and the order is assigned.
C25_Witness ==
    \E p \in Procs : \E q \in Procs :
        /\ BothRead(p, q, "pending")
        /\ inflight[p].req.op = "cancel" /\ inflight[p].req.caller = "C1"
        /\ inflight[q].req.op = "assign" /\ inflight[q].req.caller = "A"
        /\ inflight[p].kind = "OK" /\ inflight[q].kind = "OK"
        /\ last.proc = q
        /\ orders[inflight[p].req.id].delivery_status = "assigned"
        /\ orders[inflight[p].req.id].driver_id = inflight[q].req.driver_id

\* C26: of two concurrent assignments of different active drivers to an
\* order that both read as pending, at most one is answered OK, and the
\* order's driver_id is the driver of the one that was.
C26_OneAssignmentSucceeds ==
    \A p \in Procs : \A q \in Procs :
        (/\ BothRead(p, q, "pending")
         /\ inflight[p].req.op = "assign" /\ inflight[q].req.op = "assign"
         /\ inflight[p].req.caller \in As("admin") /\ inflight[q].req.caller \in As("admin")
         /\ inflight[p].req.driver_id \in As("driver")
         /\ inflight[q].req.driver_id \in As("driver")
         /\ inflight[p].req.driver_id # inflight[q].req.driver_id)
        => /\ ~(inflight[p].kind = "OK" /\ inflight[q].kind = "OK")
           /\ \A w \in {p, q} :
                inflight[w].kind = "OK"
                => orders[inflight[w].req.id].driver_id = inflight[w].req.driver_id

\* The users whose stored status is not active.
NotActive == {c \in UserIds : FindUser(c) # NoRow /\ users[c].status # "active"}

\* Every request that carries the token of a user who is not active is
\* answered 401 and leaves both tables as they are, on every route behind
\* authenticateToken; so is the login of such a user, with the right
\* password.
InactiveTurnedAway ==
    \A c \in NotActive :
        /\ \A r \in CreateRequests :
             r.caller = c => PostOrders(c, r.body) = Reply("Unauthenticated", orders)
        /\ \A r \in UpdateRequests :
             r.caller = c => PutOrder(c, r.id, r.body) = Reply("Unauthenticated", orders)
        /\ \A r \in StatusRequests :
             r.caller = c => PutOrderStatus(c, r.id, r.body) = Reply("Unauthenticated", orders)
        /\ \A r \in AssignRequests :
             r.caller = c => PutOrderAssign(c, r.id, r.driver_id) = Reply("Unauthenticated", orders)
        /\ \A r \in CancelRequests :
             r.caller = c => DeleteOrder(c, r.id) = Reply("Unauthenticated", orders)
        /\ \A i \in IdParams : GetOrder(c, i) = {Answered("Unauthenticated", <<>>)}
        /\ \A q \in Queries : GetOrders(c, q) = {Answered("Unauthenticated", <<>>)}
        /\ GetOrdersAvailable(c) = {Answered("Unauthenticated", <<>>)}
        /\ \A b \in UserUpdateBodies :
             /\ PutProfile(c, b) = UserReply("Unauthenticated", users)
             /\ \A i \in UserIds \cup {NoUser, BadId} :
                  PutUser(c, i, b) = UserReply("Unauthenticated", users)
        /\ \A i \in UserIds \cup {NoUser, BadId} :
             DeleteUser(c, i) = UserReply("Unauthenticated", users)
        /\ PostLogin(c, TRUE) = UserReply("Unauthenticated", users)
        /\ HttpStatus("Unauthenticated") = 401

\* The request of the step carried the token of a user who was not active
\* then: it was answered 401 and wrote nothing.
InactiveStep ==
    (last'.by \in NotActive /\ last'.op # "none")
    => /\ last'.kind = "Unauthenticated"
       /\ users' = users /\ orders' = orders

\* C22: a user whose status is not active cannot log in, and every request
\* that carries such a user's token, whenever it was issued, is answered 401
\* before its handler runs and changes nothing.
C22_OnlyActiveUsersAct == []InactiveTurnedAway /\ [][InactiveStep]_vars

\* The customer C1, active at first, has been made inactive, and a later
\* own-profile update with C1's token was answered 401.
C22_Witness ==
    /\ last.op = "profile" /\ last.by = "C1" /\ last.kind = "Unauthenticated"
    /\ users["C1"].status = "inactive"

\* C23: every user whose role is driver has a vehicle_number and a
\* license_number that are not empty.
C23_DriversHaveVehicleAndLicense ==
    \A u \in UserIds :
        (users[u] # NoRow /\ users[u].role = "driver")
        => ~Empty(users[u].vehicle_number) /\ ~Empty(users[u].license_number)

\* The request of the step was an own-profile update or a user update with
\* the token of a customer or a driver: no user's role or status changed.
RoleStep ==
    (/\ last'.op \in {"profile", "user"}
     /\ last'.by \in As("customer") \cup As("driver"))
    => \A u \in UserIds :
          users[u] # NoRow
          => /\ users'[u] # NoRow
             /\ users'[u].role = users[u].role
             /\ users'[u].status = users[u].status

\* C28: no own-profile update and no user update made by a customer or a
\* driver changes a user's role or status.
C28_RoleChangesByAdminOnly == [][RoleStep]_vars

\* C29: every order's driver_id is null or the id of an existing user whose
\* role is driver.
C29_DriverIdNamesDriver ==
    \A o \in Existing :
        orders[o].driver_id # Null
        => /\ FindUser(orders[o].driver_id) # NoRow
           /\ users[orders[o].driver_id].role = "driver"

\* The well-formed ids that match no order.
Missing == (OrderIds \cup {NoOrder}) \ Existing

\* A request that names an id of no order is answered NotFound and leaves
\* the table as it is: get-by-id, general update and cancel by a caller of
\* any role, status update by an admin or a driver, assign by an admin.
MissingIsNotFound ==
    \A i \in Missing :
        /\ \A c \in As("admin") \cup As("driver") \cup As("customer") :
             /\ GetOrder(c, i) = {Answered("NotFound", <<>>)}
             /\ \A b \in UpdateBodies :
                  validateOrderUpdate(b) => PutOrder(c, i, b) = Reply("NotFound", orders)
             /\ DeleteOrder(c, i) = Reply("NotFound", orders)
        /\ \A c \in As("admin") \cup As("driver") : \A b \in StatusBodies :
             validateStatusUpdate(b) => PutOrderStatus(c, i, b) = Reply("NotFound", orders)
        /\ \A c \in As("admin") : \A d \in AssignTargets :
             validateDriverAssignment(d) => PutOrderAssign(c, i, d) = Reply("NotFound", orders)
        /\ HttpStatus("NotFound") = 404

\* C24: acting on an id that matches no order yields NotFound (404), not an
\* authorization or state error, and changes nothing.
C24_MissingOrderNotFound == []MissingIsNotFound

\* An order exists, and a cancellation that named the id of no order was
\* answered NotFound.
C24_Witness ==
    /\ last.op = "cancel" /\ last.kind = "NotFound"
    /\ Existing # {}

\* The request of the step was a customer's: every order has the
\* customer_id it had.
CustomerIdStep ==
    last'.by = "customer"
    => \A o \in Existing : orders'[o].customer_id = orders[o].customer_id

\* C27: no request by a customer changes the customer_id of an order.
C27_CustomerIdNeverChanges == [][CustomerIdStep]_vars

\* A status update by the order's driver that carries both statuses is
\* answered AuthorizationDenied as a whole.
DriverBothRejected ==
    \A r \in StatusRequests :
        (/\ r.caller \in As("driver") /\ r.id \in Existing
         /\ orders[r.id].driver_id = r.caller
         /\ r.body.delivery_status # Absent /\ r.body.payment_status # Absent
         /\ validateStatusUpdate(r.body))
        => PutOrderStatus(r.caller, r.id, r.body) = Reply("AuthorizationDenied", orders)

\* The request of the step was answered 400, 403 or 404: the Orders table
\* is as it was.
RejectedStep ==
    HttpStatus(last'.kind) \in {400, 403, 404} => orders' = orders

\* C30: a request that is answered 400, 403 or 404 has written no field of
\* any order; a driver's status update with both statuses is rejected as a
\* whole.
C30_RejectedWritesNothing == []DriverBothRejected /\ [][RejectedStep]_vars

\* A status update of an order that is assigned to D1 was answered
\* AuthorizationDenied.
C30_Witness ==
    /\ last.op = "status" /\ last.kind = "AuthorizationDenied"
    /\ \E o \in Existing : orders[o].driver_id = "D1" /\ orders[o].delivery_status = "assigned"

====
